---------------------------- MODULE Spec2Model ----------------------------
(***************************************************************************)
(* Model of the diarization bot's post-processing and speaker enrollment:  *)
(*   app/postprocess.py        load_segments, apply_speaker_map,           *)
(*                             segments_to_text, write_segments            *)
(*   app/speaker_enrollment.py _load_embedding_model, _cut_wav,            *)
(*                             enroll_speakers                             *)
(*   app/pipeline.py           AudioDiarizationPipeline.process            *)
(*                                                                         *)
(* Strings are sequences of one-character strings, so that strip, join and *)
(* line counting are computed and not assumed.  JSON values are tagged     *)
(* records [t, s, n].  Times are whole seconds.                            *)
(***************************************************************************)
EXTENDS Integers, Sequences, FiniteSets, TLC

VARIABLES
    doc,              \* the WhisperX JSON document read by load_segments
    speaker_map,      \* config.speaker_map: code -> display name
    pc,               \* position of the caller (process, or a direct call)
    segments,         \* result of load_segments
    mapped_segments,  \* result of apply_speaker_map
    transcript,       \* meeting_diarized.txt: [exists, content]
    raised,           \* exception that left the running function, or "none"
    warnings,         \* number of LOGGER.warning calls of process
    enroll_segments,  \* enroll_speakers: the segments argument
    cap,              \* enroll_speakers: max_segments_per_speaker
    epc,              \* enroll_speakers: position in the function
    grouped,          \* enroll_speakers: the dict grouped, in insertion order
    spk,              \* enroll_speakers: index in grouped of the speaker in hand
    idx,              \* enroll_speakers: index of the window in hand
    embeddings,       \* enroll_speakers: windows whose vectors were appended
    created,          \* enroll_speakers: the list created (file names)
    enroll_exc,       \* exception raised inside enroll_speakers, or "none"
    failed_at,        \* the call that raised it: import, construct, cut, embed, save
    speaker_db,       \* files of output_dir: name -> windows whose mean it holds
    db_exists,        \* output_dir exists
    temp_dir,         \* the TemporaryDirectory: none, exists, removed
    clips,            \* wav clips in the temporary directory
    cuts,             \* log of the _cut_wav calls: [code, start, end]
    saves             \* log of the np.save calls: [code, name]

postVars == <<doc, segments, mapped_segments, transcript>>

enrollVars ==
    <<enroll_segments, cap, epc, grouped, spk, idx, embeddings, created,
      enroll_exc, failed_at, speaker_db, db_exists, temp_dir, clips, cuts, saves>>

vars ==
    <<doc, speaker_map, pc, segments, mapped_segments, transcript, raised,
      warnings, enroll_segments, cap, epc, grouped, spk, idx, embeddings,
      created, enroll_exc, failed_at, speaker_db, db_exists, temp_dir, clips,
      cuts, saves>>

---------------------------------------------------------------------------
(* Bounds of the model.                                                    *)

MaxRecs == 2

MaxSegs == 2

MaxEnd == 3

---------------------------------------------------------------------------
(* Strings and JSON values.                                                *)

NL == "\n"

SP == " "

IsSpace(c) == c = SP \/ c = NL

RECURSIVE LStrip(_)
LStrip(s) ==
    IF s = <<>> THEN <<>>
    ELSE IF IsSpace(Head(s)) THEN LStrip(Tail(s))
    ELSE s

RECURSIVE RStrip(_)
RStrip(s) ==
    IF s = <<>> THEN <<>>
    ELSE IF IsSpace(s[Len(s)]) THEN RStrip(SubSeq(s, 1, Len(s) - 1))
    ELSE s

\* str.strip()
Strip(s) == RStrip(LStrip(s))

JAbsent == [t |-> "absent", s |-> <<>>, n |-> 0]

JNull == [t |-> "null", s |-> <<>>, n |-> 0]

JStr(str) == [t |-> "str", s |-> str, n |-> 0]

JNum(k) == [t |-> "num", s |-> <<>>, n |-> k]

\* dict.get(key, default) on a raw record field
Get(v, default) == IF v.t = "absent" THEN default ELSE v

\* Python truthiness of a JSON value
Truthy(v) ==
    CASE v.t = "str" -> v.s # <<>>
      [] v.t = "num" -> v.n # 0
      [] OTHER -> FALSE

Digits == <<"0", "1", "2", "3", "4", "5", "6", "7", "8", "9">>

DigitVal(c) == CHOOSE d \in 0..9 : Digits[d + 1] = c

IsDigit(c) == \E d \in 0..9 : Digits[d + 1] = c

RECURSIVE DecimalValue(_)
DecimalValue(s) ==
    IF s = <<>> THEN 0
    ELSE 10 * DecimalValue(SubSeq(s, 1, Len(s) - 1)) + DigitVal(s[Len(s)])

\* float(x): a number is itself, a string is parsed after stripping, None
\* raises TypeError, a string that is no number raises ValueError.
Float(v) ==
    CASE v.t = "num" -> [err |-> "none", val |-> v.n]
      [] v.t = "str" ->
            LET body == Strip(v.s) IN
            IF body # <<>> /\ \A i \in 1..Len(body) : IsDigit(body[i])
            THEN [err |-> "none", val |-> DecimalValue(body)]
            ELSE [err |-> "ValueError", val |-> 0]
      [] OTHER -> [err |-> "TypeError", val |-> 0]

---------------------------------------------------------------------------
(* app/postprocess.py                                                      *)

PLACEHOLDER == <<"S", "P", "E", "A", "K", "E", "R">>

Segment(speaker, text, start, end) ==
    [speaker |-> speaker, text |-> text, start |-> start, end |-> end]

\* One pass of the loop body of load_segments over record raw:
\* "skip", "err" (with the exception) or "seg" (with the Segment).
LoadRecord(raw) ==
    LET speaker == Get(raw.speaker, JStr(PLACEHOLDER))
        got     == Get(raw.text, JNull)
        orEmpty == IF Truthy(got) THEN got ELSE JStr(<<>>)
    IN  IF orEmpty.t # "str"
        THEN [kind |-> "err", err |-> "AttributeError", seg |-> <<>>]
        ELSE LET text == Strip(orEmpty.s) IN
             IF text = <<>>
             THEN [kind |-> "skip", err |-> "none", seg |-> <<>>]
             ELSE LET st == Float(Get(raw.start, JNum(0)))
                      en == Float(Get(raw.end, JNum(0)))
                  IN  IF st.err # "none"
                      THEN [kind |-> "err", err |-> st.err, seg |-> <<>>]
                      ELSE IF en.err # "none"
                      THEN [kind |-> "err", err |-> en.err, seg |-> <<>>]
                      ELSE [kind |-> "seg", err |-> "none",
                            seg  |-> <<Segment(speaker, text, st.val, en.val)>>]

RECURSIVE LoadFrom(_, _, _)
LoadFrom(recs, i, acc) ==
    IF i > Len(recs) THEN [err |-> "none", segs |-> acc]
    ELSE LET r == LoadRecord(recs[i]) IN
         IF r.kind = "err" THEN [err |-> r.err, segs |-> <<>>]
         ELSE LoadFrom(recs, i + 1, acc \o r.seg)

\* load_segments: json.loads, then data.get("segments", []) record by record
load_segments(d) ==
    IF d.kind = "unparseable" THEN [err |-> "JSONDecodeError", segs |-> <<>>]
    ELSE IF ~d.hasSegments THEN [err |-> "none", segs |-> <<>>]
    ELSE LoadFrom(d.segs, 1, <<>>)

\* mapping.get(segment.speaker): no fallback to the original label
MapGetNoDefault(mapping, speaker) ==
    IF speaker.t = "str" /\ speaker.s \in DOMAIN mapping
    THEN JStr(mapping[speaker.s])
    ELSE JNull

\* mapping.get(segment.speaker, segment.speaker)
MapGet(mapping, speaker) ==
    IF speaker.t = "str" /\ speaker.s \in DOMAIN mapping
    THEN JStr(mapping[speaker.s])
    ELSE speaker

apply_speaker_map(segs, mapping) ==
    [i \in 1..Len(segs) |->
        Segment(MapGet(mapping, segs[i].speaker), segs[i].text,
                segs[i].start, segs[i].end)]

TwoDigits(k) ==
    IF k < 100 THEN <<Digits[(k \div 10) + 1], Digits[(k % 10) + 1]>>
    ELSE <<Digits[(k \div 100) + 1], Digits[((k \div 10) % 10) + 1],
           Digits[(k % 10) + 1]>>

\* _format_time: divmod by 60 twice, each part printed as %02d
format_time(timestamp) ==
    LET seconds == timestamp % 60
        minutes == (timestamp \div 60) % 60
        hours   == (timestamp \div 60) \div 60
    IN  TwoDigits(hours) \o <<":">> \o TwoDigits(minutes) \o <<":">>
        \o TwoDigits(seconds)

\* Segment.pretty_time (the en dash is written "-")
pretty_time(seg) ==
    <<"[">> \o format_time(seg.start) \o <<"-">> \o format_time(seg.end)
    \o <<"]">>

\* str() of a speaker label inside the f-string
FormatSpeaker(speaker) ==
    IF speaker.t = "str" THEN speaker.s ELSE <<"N", "o", "n", "e">>

RenderLine(seg) ==
    pretty_time(seg) \o <<SP>> \o FormatSpeaker(seg.speaker) \o <<":", SP>>
    \o seg.text

RECURSIVE Join(_, _)
Join(lines, sep) ==
    IF lines = <<>> THEN <<>>
    ELSE IF Len(lines) = 1 THEN lines[1]
    ELSE lines[1] \o sep \o Join(Tail(lines), sep)

segments_to_text(segs) ==
    Join([i \in 1..Len(segs) |-> RenderLine(segs[i])], <<NL>>)

---------------------------------------------------------------------------
(* Inputs of the post-processing functions.                                *)

Code0 == <<"S", "0">>

Code1 == <<"S", "1">>

Name0 == <<"A", "l">>

SpeakerVals == {JAbsent, JNull, JStr(<<>>), JStr(Code0), JStr(Code1)}

TextVals ==
    {JAbsent, JNull, JStr(<<>>), JStr(<<SP>>), JStr(<<SP, "a", SP>>),
     JStr(<<"a", NL, "b">>)}

\* Records whose start and end are numbers, and records with a start or an
\* end that is absent, null, a numeric string or a string that is no number.
RawRecords ==
    [speaker : SpeakerVals, text : TextVals, start : {JNum(0)}, end : {JNum(65)}]
    \cup
    [speaker : {JStr(Code0)}, text : {JStr(<<SP>>), JStr(<<SP, "a", SP>>)},
     start : {JAbsent, JNull, JStr(<<"7">>), JStr(<<"x">>)}, end : {JNum(3)}]
    \cup
    [speaker : {JStr(Code0)}, text : {JStr(<<SP, "a", SP>>)},
     start : {JNum(1)}, end : {JAbsent, JNull, JStr(<<"x">>)}]

RECURSIVE SeqsUpTo(_, _)
SeqsUpTo(S, k) ==
    IF k = 0 THEN {<<>>}
    ELSE LET shorter == SeqsUpTo(S, k - 1) IN
         shorter \cup {Append(q, x) : q \in {p \in shorter : Len(p) = k - 1}, x \in S}

Docs ==
    {[kind |-> "unparseable", hasSegments |-> FALSE, segs |-> <<>>],
     [kind |-> "object", hasSegments |-> FALSE, segs |-> <<>>]}
    \cup
    {[kind |-> "object", hasSegments |-> TRUE, segs |-> q] :
        q \in SeqsUpTo(RawRecords, MaxRecs)}

EmptyMap == [x \in {} |-> <<>>]

SpeakerMaps ==
    {EmptyMap, [x \in {Code0} |-> Name0], [x \in {Code0, Code1} |-> Name0],
     [x \in {Code0} |-> Code1]}

NoFile == [exists |-> FALSE, content |-> <<>>]

---------------------------------------------------------------------------
(* app/speaker_enrollment.py                                               *)

MinDuration == 2

DefaultCap == 5

Min(a, b) == IF a < b THEN a ELSE b

Max(a, b) == IF a > b THEN a ELSE b

Duration(w) == w[2] - w[1]

\* the filter of the grouping loop with the threshold dropped to 0
TooShortNonPositive(start, end) == end - start <= 0

\* float("nan"), written as the one time value below 0: every comparison
\* with it is false
NaN == -1

IsNaN(x) == x = NaN

\* the filter dropping only the segments that end before they start
TooShortOnlyNegative(start, end) ==
    ~IsNaN(start) /\ ~IsNaN(end) /\ end - start < 0

\* if end - start < 2.0: continue
TooShort(start, end) == ~IsNaN(start) /\ ~IsNaN(end) /\ end - start < MinDuration

\* grouped.setdefault(speaker, []).append((start, end)) on the ordered dict
SetDefaultAppend(g, code, w) ==
    IF \E i \in 1..Len(g) : g[i].code = code
    THEN [i \in 1..Len(g) |->
            IF g[i].code = code
            THEN [code |-> code, windows |-> Append(g[i].windows, w)]
            ELSE g[i]]
    ELSE Append(g, [code |-> code, windows |-> <<w>>])

\* the grouping loop over the segments argument
RECURSIVE GroupFrom(_, _, _)
GroupFrom(segs, i, g) ==
    IF i > Len(segs) THEN g
    ELSE LET seg == segs[i] IN
         IF ~Truthy(seg.speaker) THEN GroupFrom(segs, i + 1, g)
         ELSE IF TooShort(seg.start, seg.end) THEN GroupFrom(segs, i + 1, g)
         ELSE GroupFrom(segs, i + 1,
                        SetDefaultAppend(g, seg.speaker.s, <<seg.start, seg.end>>))

\* insertion of w behind every window at least as long: a stable descending sort
RECURSIVE InsertDesc(_, _)
InsertDesc(sorted, w) ==
    IF sorted = <<>> THEN <<w>>
    ELSE IF Duration(Head(sorted)) >= Duration(w)
    THEN <<Head(sorted)>> \o InsertDesc(Tail(sorted), w)
    ELSE <<w>> \o sorted

RECURSIVE SortFrom(_, _, _)
SortFrom(ws, i, acc) ==
    IF i > Len(ws) THEN acc ELSE SortFrom(ws, i + 1, InsertDesc(acc, ws[i]))

\* the sort without reverse=True: shortest first
RECURSIVE InsertAsc(_, _)
InsertAsc(sorted, w) ==
    IF sorted = <<>> THEN <<w>>
    ELSE IF Duration(Head(sorted)) <= Duration(w)
    THEN <<Head(sorted)>> \o InsertAsc(Tail(sorted), w)
    ELSE <<w>> \o sorted

RECURSIVE SortAscFrom(_, _, _)
SortAscFrom(ws, i, acc) ==
    IF i > Len(ws) THEN acc ELSE SortAscFrom(ws, i + 1, InsertAsc(acc, ws[i]))

SortShortestFirst(ws) == SortAscFrom(ws, 1, <<>>)

\* windows.sort(key=lambda item: item[1] - item[0], reverse=True)
SortLongestFirst(ws) == SortFrom(ws, 1, <<>>)

HasNaN(ws) == \E i \in 1..Len(ws) : IsNaN(ws[i][1]) \/ IsNaN(ws[i][2])

WindowOrders(ws) ==
    LET n == Len(ws) IN
    {[i \in 1..n |-> ws[f[i]]] :
        f \in {g \in [1..n -> 1..n] : \A a, b \in 1..n : a # b => g[a] # g[b]}}

\* the list after windows.sort(...): with a NaN key the comparisons are
\* inconsistent and the order the sort leaves is not specified
SortOutcomes(ws) ==
    IF HasNaN(ws) THEN WindowOrders(ws) ELSE {SortLongestFirst(ws)}

\* windows[:max_segments_per_speaker]
Selected(ws, c) == SubSeq(ws, 1, Min(c, Len(ws)))

\* speaker_map.get(speaker_code, speaker_code)
SpeakerName(mapping, code) == IF code \in DOMAIN mapping THEN mapping[code] ELSE code

\* duration = max(0.0, end - start) in _cut_wav
CutDuration(start, end) ==
    IF IsNaN(start) \/ IsNaN(end) THEN 0 ELSE Max(0, end - start)

\* a save that averages the new vectors into the file already there
SaveFileMerging(db, name, content) ==
    [x \in (DOMAIN db) \cup {name} |->
        IF x = name THEN (IF name \in DOMAIN db THEN db[name] \o content ELSE content)
        ELSE db[x]]

\* np.save(output_path, mean_embedding): creates or overwrites the file
SaveFile(db, name, content) ==
    [x \in (DOMAIN db) \cup {name} |-> IF x = name THEN content ELSE db[x]]

\* a reference embedding left by an earlier run
OldMean == << <<0, 0>> >>

InitialDb == [x \in {Name0} |-> OldMean]

EnrollIdle ==
    /\ enroll_segments = <<>>
    /\ cap = DefaultCap
    /\ epc = "idle"
    /\ grouped = <<>>
    /\ spk = 0
    /\ idx = 0
    /\ embeddings = <<>>
    /\ created = <<>>
    /\ enroll_exc = "none"
    /\ failed_at = "none"
    /\ speaker_db = InitialDb
    /\ db_exists = TRUE
    /\ temp_dir = "none"
    /\ clips = {}
    /\ cuts = <<>>
    /\ saves = <<>>

callerVars ==
    <<doc, speaker_map, pc, segments, mapped_segments, transcript, raised, warnings>>

\* _load_embedding_model without the try/except around the imports: the
\* ImportError leaves the function as it is
LoadEmbeddingModelUnwrapped ==
    /\ epc = "load_model"
    /\ \E outcome \in {"ok", "import", "construct"} :
          IF outcome = "ok"
          THEN /\ epc' = "group"
               /\ UNCHANGED <<enroll_exc, failed_at>>
          ELSE /\ epc' = "raised"
               /\ enroll_exc' = IF outcome = "import" THEN "ImportError"
                                ELSE "RuntimeError"
               /\ failed_at' = outcome
    /\ UNCHANGED <<enroll_segments, cap, grouped, spk, idx, embeddings, created,
                   speaker_db, db_exists, temp_dir, clips, cuts, saves>>
    /\ UNCHANGED callerVars

\* embedder = _load_embedding_model(): the import fails (EnrollmentError),
\* the model cannot be constructed (the library's own exception), or it loads.
LoadEmbeddingModel ==
    /\ epc = "load_model"
    /\ \E outcome \in {"ok", "import", "construct"} :
          IF outcome = "ok"
          THEN /\ epc' = "group"
               /\ UNCHANGED <<enroll_exc, failed_at>>
          ELSE /\ epc' = "raised"
               /\ enroll_exc' = IF outcome = "import" THEN "EnrollmentError"
                                ELSE "RuntimeError"
               /\ failed_at' = outcome
    /\ UNCHANGED <<enroll_segments, cap, grouped, spk, idx, embeddings, created,
                   speaker_db, db_exists, temp_dir, clips, cuts, saves>>
    /\ UNCHANGED callerVars

\* output_dir.mkdir(parents=True, exist_ok=True) and the grouping loop
GroupSegments ==
    /\ epc = "group"
    /\ db_exists' = TRUE
    /\ grouped' = GroupFrom(enroll_segments, 1, <<>>)
    /\ created' = <<>>
    /\ epc' = "tempdir"
    /\ UNCHANGED <<enroll_segments, cap, spk, idx, embeddings, enroll_exc,
                   failed_at, speaker_db, temp_dir, clips, cuts, saves>>
    /\ UNCHANGED callerVars

\* with tempfile.TemporaryDirectory(prefix="enroll_") as temp_dir:
EnterTempDir ==
    /\ epc = "tempdir"
    /\ temp_dir' = "exists"
    /\ spk' = 1
    /\ epc' = "speaker"
    /\ UNCHANGED <<enroll_segments, cap, grouped, idx, embeddings, created,
                   enroll_exc, failed_at, speaker_db, db_exists, clips, cuts, saves>>
    /\ UNCHANGED callerVars

\* for speaker_code, windows in grouped.items(): sort in place, start the
\* window loop; past the last speaker the with block is left.
NextSpeaker ==
    /\ epc = "speaker"
    /\ IF spk > Len(grouped)
       THEN /\ epc' = "exit"
            /\ UNCHANGED <<grouped, idx, embeddings>>
       ELSE /\ \E sorted \in SortOutcomes(grouped[spk].windows) :
                  grouped' = [grouped EXCEPT ![spk].windows = sorted]
            /\ embeddings' = <<>>
            /\ idx' = 1
            /\ epc' = "window"
    /\ UNCHANGED <<enroll_segments, cap, spk, created, enroll_exc, failed_at,
                   speaker_db, db_exists, temp_dir, clips, cuts, saves>>
    /\ UNCHANGED callerVars

Current == grouped[spk]

CurrentSelected == Selected(Current.windows, cap)

\* _cut_wav on a failing window, with the failure swallowed and the window skipped
CutWavSkipOnFailure ==
    /\ epc = "window"
    /\ idx <= Len(CurrentSelected)
    /\ LET w == CurrentSelected[idx] IN
       /\ cuts' = Append(cuts, [code |-> Current.code, start |-> w[1], end |-> w[2]])
       /\ \E returncode \in {0, 1} :
             IF CutDuration(w[1], w[2]) <= 0 \/ returncode # 0
             THEN /\ failed_at' = "cut"
                  /\ idx' = idx + 1
                  /\ UNCHANGED <<epc, clips>>
             ELSE /\ clips' = clips \cup {[code |-> Current.code, idx |-> idx]}
                  /\ epc' = "embed"
                  /\ UNCHANGED <<failed_at, idx>>
    /\ UNCHANGED <<enroll_segments, cap, grouped, spk, embeddings, created,
                   enroll_exc, speaker_db, db_exists, temp_dir, saves>>
    /\ UNCHANGED callerVars

\* _cut_wav(audio_path, start, end, wav_path) on the next selected window
CutWav ==
    /\ epc = "window"
    /\ idx <= Len(CurrentSelected)
    /\ LET w == CurrentSelected[idx] IN
       /\ cuts' = Append(cuts, [code |-> Current.code, start |-> w[1], end |-> w[2]])
       /\ \E returncode \in {0, 1} :
             IF CutDuration(w[1], w[2]) <= 0 \/ returncode # 0
             THEN /\ enroll_exc' = "EnrollmentError"
                  /\ failed_at' = "cut"
                  /\ epc' = "unwinding"
                  /\ UNCHANGED clips
             ELSE /\ clips' = clips \cup {[code |-> Current.code, idx |-> idx]}
                  /\ epc' = "embed"
                  /\ UNCHANGED <<enroll_exc, failed_at>>
    /\ UNCHANGED <<enroll_segments, cap, grouped, spk, idx, embeddings, created,
                   speaker_db, db_exists, temp_dir, saves>>
    /\ UNCHANGED callerVars

\* vector = embedder(str(wav_path))...; embeddings.append(vector)
Embed ==
    /\ epc = "embed"
    /\ \E ok \in BOOLEAN :
          IF ok
          THEN /\ embeddings' = Append(embeddings, CurrentSelected[idx])
               /\ idx' = idx + 1
               /\ epc' = "window"
               /\ UNCHANGED <<enroll_exc, failed_at>>
          ELSE /\ enroll_exc' = "RuntimeError"
               /\ failed_at' = "embed"
               /\ epc' = "unwinding"
               /\ UNCHANGED <<embeddings, idx>>
    /\ UNCHANGED <<enroll_segments, cap, grouped, spk, created, speaker_db,
                   db_exists, temp_dir, clips, cuts, saves>>
    /\ UNCHANGED callerVars

\* if embeddings: np.save(output_dir / f"{speaker_name}.npy", mean); created.append
SaveEmbedding ==
    /\ epc = "window"
    /\ idx > Len(CurrentSelected)
    /\ LET name == SpeakerName(speaker_map, Current.code) IN
       IF embeddings = <<>>
       THEN /\ spk' = spk + 1
            /\ epc' = "speaker"
            /\ UNCHANGED <<speaker_db, created, saves, enroll_exc, failed_at>>
       ELSE \E ok \in BOOLEAN :
              IF ok
              THEN /\ speaker_db' = SaveFile(speaker_db, name, embeddings)
                   /\ created' = Append(created, name)
                   /\ saves' = Append(saves, [code |-> Current.code, name |-> name])
                   /\ spk' = spk + 1
                   /\ epc' = "speaker"
                   /\ UNCHANGED <<enroll_exc, failed_at>>
              ELSE /\ enroll_exc' = "OSError"
                   /\ failed_at' = "save"
                   /\ epc' = "unwinding"
                   /\ UNCHANGED <<speaker_db, created, saves, spk>>
    /\ UNCHANGED <<enroll_segments, cap, grouped, idx, embeddings, db_exists,
                   temp_dir, clips, cuts>>
    /\ UNCHANGED callerVars

\* a temporary directory removed by hand after the loop: an exception in
\* flight skips the removal
ExitTempDirOnSuccessOnly ==
    /\ epc \in {"exit", "unwinding"}
    /\ IF enroll_exc = "none"
       THEN temp_dir' = "removed" /\ clips' = {} /\ epc' = "returned"
       ELSE UNCHANGED <<temp_dir, clips>> /\ epc' = "raised"
    /\ UNCHANGED <<enroll_segments, cap, grouped, spk, idx, embeddings, created,
                   enroll_exc, failed_at, speaker_db, db_exists, cuts, saves>>
    /\ UNCHANGED callerVars

\* leaving the with block, normally or with the exception in flight: the
\* temporary directory and its clips are removed
ExitTempDir ==
    /\ epc \in {"exit", "unwinding"}
    /\ temp_dir' = "removed"
    /\ clips' = {}
    /\ epc' = IF enroll_exc = "none" THEN "returned" ELSE "raised"
    /\ UNCHANGED <<enroll_segments, cap, grouped, spk, idx, embeddings, created,
                   enroll_exc, failed_at, speaker_db, db_exists, cuts, saves>>
    /\ UNCHANGED callerVars

EnrollStep ==
    \/ LoadEmbeddingModel
    \/ GroupSegments
    \/ EnterTempDir
    \/ NextSpeaker
    \/ CutWav
    \/ Embed
    \/ SaveEmbedding
    \/ ExitTempDir

---------------------------------------------------------------------------
(* enroll_speakers called directly on a list of segment dicts.             *)

\* start offsets of the segment dicts; their ends range over 0..MaxEnd
Starts == {0, 1}

EnrollDicts ==
    [speaker : {JStr(<<>>), JStr(Code0), JStr(Code1)},
     start : Starts, end : 0..MaxEnd]

Dict(code, start, end) == [speaker |-> JStr(code), start |-> start, end |-> end]

\* seven eligible windows of one speaker, and a short one
SevenWindows ==
    <<Dict(Code0, 0, 3), Dict(Code0, 3, 9), Dict(Code0, 9, 11), Dict(Code0, 11, 12),
      Dict(Code0, 12, 17), Dict(Code0, 17, 21), Dict(Code0, 21, 28),
      Dict(Code0, 28, 30)>>

\* two speakers in turn, each with a window of at least 2 seconds
TwoSpeakers ==
    <<Dict(Code1, 0, 1), Dict(Code0, 1, 4), Dict(Code0, 5, 10), Dict(Code1, 10, 13)>>

EnrollInputs == SeqsUpTo(EnrollDicts, MaxSegs) \cup {SevenWindows, TwoSpeakers}

Caps == {1, DefaultCap}

\* no entry, two codes with one display name, a display name that is a code
EnrollMaps ==
    {EmptyMap, [x \in {Code0, Code1} |-> Name0], [x \in {Code0} |-> Code1]}

InitEnroll ==
    /\ doc = [kind |-> "missing", hasSegments |-> FALSE, segs |-> <<>>]
    /\ speaker_map \in EnrollMaps
    /\ pc = "direct"
    /\ segments = <<>>
    /\ mapped_segments = <<>>
    /\ transcript = NoFile
    /\ raised = "none"
    /\ warnings = 0
    /\ enroll_segments \in EnrollInputs
    /\ cap \in Caps
    /\ epc = "load_model"
    /\ grouped = <<>>
    /\ spk = 0
    /\ idx = 0
    /\ embeddings = <<>>
    /\ created = <<>>
    /\ enroll_exc = "none"
    /\ failed_at = "none"
    /\ speaker_db = InitialDb
    /\ db_exists = TRUE
    /\ temp_dir = "none"
    /\ clips = {}
    /\ cuts = <<>>
    /\ saves = <<>>

SpecEnroll == InitEnroll /\ [][EnrollStep]_vars

\* segment dicts whose start or end may be NaN
FloatDicts ==
    [speaker : {JStr(Code0), JStr(Code1)},
     start : Starts \cup {NaN}, end : (0..MaxEnd) \cup {NaN}]

InitEnrollFloat ==
    /\ doc = [kind |-> "missing", hasSegments |-> FALSE, segs |-> <<>>]
    /\ speaker_map \in EnrollMaps
    /\ pc = "direct"
    /\ segments = <<>>
    /\ mapped_segments = <<>>
    /\ transcript = NoFile
    /\ raised = "none"
    /\ warnings = 0
    /\ enroll_segments \in SeqsUpTo(FloatDicts, MaxSegs)
    /\ cap \in Caps
    /\ epc = "load_model"
    /\ grouped = <<>>
    /\ spk = 0
    /\ idx = 0
    /\ embeddings = <<>>
    /\ created = <<>>
    /\ enroll_exc = "none"
    /\ failed_at = "none"
    /\ speaker_db = InitialDb
    /\ db_exists = TRUE
    /\ temp_dir = "none"
    /\ clips = {}
    /\ cuts = <<>>
    /\ saves = <<>>

SpecEnrollFloat == InitEnrollFloat /\ [][EnrollStep]_vars

---------------------------------------------------------------------------
(* The post-processing functions applied one after the other to one input. *)

InitPost ==
    /\ doc \in Docs
    /\ speaker_map \in SpeakerMaps
    /\ pc = "load"
    /\ segments = <<>>
    /\ mapped_segments = <<>>
    /\ transcript = NoFile
    /\ raised = "none"
    /\ warnings = 0
    /\ EnrollIdle

LoadSegments ==
    /\ pc = "load"
    /\ LET r == load_segments(doc) IN
       IF r.err # "none"
       THEN /\ pc' = "raised"
            /\ raised' = r.err
            /\ UNCHANGED segments
       ELSE /\ pc' = "remap"
            /\ segments' = r.segs
            /\ UNCHANGED raised
    /\ UNCHANGED <<doc, speaker_map, mapped_segments, transcript, warnings>>
    /\ UNCHANGED enrollVars

ApplySpeakerMap ==
    /\ pc = "remap"
    /\ pc' = "write"
    /\ mapped_segments' = apply_speaker_map(segments, speaker_map)
    /\ UNCHANGED <<doc, speaker_map, segments, transcript, raised, warnings>>
    /\ UNCHANGED enrollVars

\* write_segments: mkdir of the parent, then write_text of the rendering
\* (the mkdir or the write may fail with OSError, which leaves the function)
WriteSegments ==
    /\ pc = "write"
    /\ \E ok \in BOOLEAN :
          IF ok
          THEN /\ pc' = "enroll"
               /\ transcript' = [exists |-> TRUE,
                                 content |-> segments_to_text(mapped_segments)]
               /\ UNCHANGED raised
          ELSE /\ pc' = "raised"
               /\ raised' = "OSError"
               /\ UNCHANGED transcript
    /\ UNCHANGED <<doc, speaker_map, segments, mapped_segments, warnings>>
    /\ UNCHANGED enrollVars

NextPost == LoadSegments \/ ApplySpeakerMap \/ WriteSegments

SpecPost == InitPost /\ [][NextPost]_vars

---------------------------------------------------------------------------
(* app/pipeline.py: AudioDiarizationPipeline.process                       *)

\* copy of the local file or download_audio; DownloadError is re-raised as
\* RuntimeError
Acquire ==
    /\ pc = "acquire"
    /\ \E ok \in BOOLEAN :
          IF ok
          THEN pc' = "whisperx" /\ UNCHANGED raised
          ELSE pc' = "raised" /\ raised' = "RuntimeError"
    /\ UNCHANGED <<doc, speaker_map, segments, mapped_segments, transcript, warnings>>
    /\ UNCHANGED enrollVars

\* run_whisperx; WhisperXRuntimeError is re-raised as RuntimeError
RunWhisperX ==
    /\ pc = "whisperx"
    /\ \E ok \in BOOLEAN :
          IF ok
          THEN pc' = "check_json" /\ UNCHANGED raised
          ELSE pc' = "raised" /\ raised' = "RuntimeError"
    /\ UNCHANGED <<doc, speaker_map, segments, mapped_segments, transcript, warnings>>
    /\ UNCHANGED enrollVars

\* if not json_path.exists(): raise RuntimeError
CheckJson ==
    /\ pc = "check_json"
    /\ IF doc.kind = "missing"
       THEN pc' = "raised" /\ raised' = "RuntimeError"
       ELSE pc' = "load" /\ UNCHANGED raised
    /\ UNCHANGED <<doc, speaker_map, segments, mapped_segments, transcript, warnings>>
    /\ UNCHANGED enrollVars

\* the list comprehension handed to enroll_speakers
SegmentDicts(segs) ==
    [i \in 1..Len(segs) |->
        [speaker |-> segs[i].speaker, start |-> segs[i].start, end |-> segs[i].end]]

\* the enroll_speakers call placed ahead of write_segments
StartEnrollBeforeWrite ==
    /\ pc \in {"write", "enroll"}
    /\ IF DOMAIN speaker_map # {}
       THEN /\ pc' = "enrolling"
            /\ enroll_segments' = SegmentDicts(segments)
            /\ cap' = DefaultCap
            /\ epc' = "load_model"
       ELSE /\ pc' = "done"
            /\ UNCHANGED <<enroll_segments, cap, epc>>
    /\ UNCHANGED <<doc, speaker_map, segments, mapped_segments, transcript,
                   raised, warnings>>
    /\ UNCHANGED <<grouped, spk, idx, embeddings, created, enroll_exc, failed_at,
                   speaker_db, db_exists, temp_dir, clips, cuts, saves>>

\* if self.config.speaker_map: enroll_speakers(...) is entered; with an
\* empty map the PipelineResult is returned at once
StartEnroll ==
    /\ pc = "enroll"
    /\ IF DOMAIN speaker_map # {}
       THEN /\ pc' = "enrolling"
            /\ enroll_segments' = SegmentDicts(segments)
            /\ cap' = DefaultCap
            /\ epc' = "load_model"
       ELSE /\ pc' = "done"
            /\ UNCHANGED <<enroll_segments, cap, epc>>
    /\ UNCHANGED <<doc, speaker_map, segments, mapped_segments, transcript,
                   raised, warnings>>
    /\ UNCHANGED <<grouped, spk, idx, embeddings, created, enroll_exc, failed_at,
                   speaker_db, db_exists, temp_dir, clips, cuts, saves>>

\* enroll_speakers returned: return PipelineResult(...)
EnrollReturned ==
    /\ pc = "enrolling"
    /\ epc = "returned"
    /\ pc' = "done"
    /\ UNCHANGED <<doc, speaker_map, segments, mapped_segments, transcript,
                   raised, warnings>>
    /\ UNCHANGED enrollVars

\* except EnrollmentError: LOGGER.warning(...), then the return; any other
\* exception leaves process
EnrollRaised ==
    /\ pc = "enrolling"
    /\ epc = "raised"
    /\ IF enroll_exc = "EnrollmentError"
       THEN /\ warnings' = warnings + 1
            /\ pc' = "done"
            /\ UNCHANGED raised
       ELSE /\ pc' = "raised"
            /\ raised' = enroll_exc
            /\ UNCHANGED warnings
    /\ UNCHANGED <<doc, speaker_map, segments, mapped_segments, transcript>>
    /\ UNCHANGED enrollVars

PipelineRecords ==
    [speaker : {JNull, JStr(Code0), JStr(Code1)},
     text : {JStr(<<SP>>), JStr(<<"a">>)},
     start : {JNum(0)}, end : {JNum(1), JNum(3)}]
    \cup
    {[speaker |-> JStr(Code0), text |-> JStr(<<"a">>), start |-> JStr(<<"x">>),
      end |-> JNum(3)]}

PipelineDocs ==
    {[kind |-> "missing", hasSegments |-> FALSE, segs |-> <<>>],
     [kind |-> "unparseable", hasSegments |-> FALSE, segs |-> <<>>],
     [kind |-> "object", hasSegments |-> FALSE, segs |-> <<>>]}
    \cup
    {[kind |-> "object", hasSegments |-> TRUE, segs |-> q] :
        q \in SeqsUpTo(PipelineRecords, MaxRecs)}

Init ==
    /\ doc \in PipelineDocs
    /\ speaker_map \in SpeakerMaps
    /\ pc = "acquire"
    /\ segments = <<>>
    /\ mapped_segments = <<>>
    /\ transcript = NoFile
    /\ raised = "none"
    /\ warnings = 0
    /\ EnrollIdle

Next ==
    \/ Acquire
    \/ RunWhisperX
    \/ CheckJson
    \/ LoadSegments
    \/ ApplySpeakerMap
    \/ WriteSegments
    \/ StartEnroll
    \/ EnrollStep
    \/ EnrollReturned
    \/ EnrollRaised

Spec == Init /\ [][Next]_vars

---------------------------------------------------------------------------
(* Claims about the loader, the remapper and the renderer (SpecPost).      *)

EmptyText(raw) ==
    \/ raw.text.t \in {"absent", "null"}
    \/ raw.text.t = "str" /\ Strip(raw.text.s) = <<>>

NotEmptyText(raw) == ~EmptyText(raw)

MissingSpeaker(raw) ==
    \/ raw.speaker.t \in {"absent", "null"}
    \/ raw.speaker.t = "str" /\ raw.speaker.s = <<>>

\* C2: every Segment load_segments returns has a non-empty speaker label,
\* and a record whose speaker is absent, null or "" is loaded with the
\* placeholder label SPEAKER.
C2_SpeakerNeverEmpty ==
    pc = "remap" =>
        /\ \A i \in 1..Len(segments) :
              segments[i].speaker.t = "str" /\ segments[i].speaker.s # <<>>
        /\ LET kept == SelectSeq(doc.segs, NotEmptyText) IN
           \A i \in 1..Len(segments) :
              MissingSpeaker(kept[i]) => segments[i].speaker = JStr(PLACEHOLDER)

\* C3: load_segments fails only when the document cannot be parsed; a
\* record with an absent or non-numeric start or end is loaded with 0.0.
C3_OnlyParseFailureRaises ==
    /\ pc = "raised" => doc.kind = "unparseable"
    /\ pc = "remap" =>
          LET kept == SelectSeq(doc.segs, NotEmptyText) IN
          \A i \in 1..Len(segments) :
             /\ Float(kept[i].start).err # "none" => segments[i].start = 0
             /\ Float(kept[i].end).err # "none" => segments[i].end = 0

\* C4: a parseable document with N records, K of them with absent, null,
\* empty or whitespace-only text, loads as exactly N-K Segments, one per
\* remaining record in input order, each with its text trimmed and non-empty.
C4_DropsExactlyEmptyText ==
    (doc.kind = "object" /\ doc.hasSegments /\ pc # "load") =>
        LET kept == SelectSeq(doc.segs, NotEmptyText)
            K    == Cardinality({i \in 1..Len(doc.segs) : EmptyText(doc.segs[i])})
        IN  /\ raised = "none"
            /\ Len(segments) = Len(doc.segs) - K
            /\ \A i \in 1..Len(segments) :
                  /\ i <= Len(kept)
                  /\ segments[i].text = Strip(kept[i].text.s)
                  /\ segments[i].text # <<>>

\* C5: apply_speaker_map returns a sequence of the same length and order in
\* which the i-th speaker is the mapped name of the i-th input speaker (the
\* input speaker itself when it is no key of the map) and text, start and end
\* are copied; the input segments and the map are left as they were.
C5_RemapIsPureSubstitution ==
    [][(pc = "remap" /\ pc' = "write") =>
        /\ Len(mapped_segments') = Len(segments)
        /\ \A i \in 1..Len(segments) :
              /\ mapped_segments'[i].speaker =
                    IF segments[i].speaker.t = "str"
                       /\ segments[i].speaker.s \in DOMAIN speaker_map
                    THEN JStr(speaker_map[segments[i].speaker.s])
                    ELSE segments[i].speaker
              /\ mapped_segments'[i].text = segments[i].text
              /\ mapped_segments'[i].start = segments[i].start
              /\ mapped_segments'[i].end = segments[i].end
        /\ segments' = segments
        /\ speaker_map' = speaker_map]_vars

\* A remap in which one speaker was renamed and another passed through.
C5_Witness ==
    /\ pc = "write"
    /\ \E i, j \in 1..Len(segments) :
          /\ mapped_segments[i].speaker # segments[i].speaker
          /\ mapped_segments[j].speaker = segments[j].speaker
          /\ segments[j].speaker.t = "str"

Count(s, c) == Cardinality({i \in 1..Len(s) : s[i] = c})

\* Number of lines of a text: 0 for the empty text, else one more than its
\* line breaks.
LineCount(s) == IF s = <<>> THEN 0 ELSE 1 + Count(s, NL)

\* C6: the written transcript of N segments has exactly N lines, no
\* trailing blank line, and is empty for N = 0.
C6_OneLinePerSegment ==
    pc = "enroll" =>
        /\ transcript.exists
        /\ LineCount(transcript.content) = Len(mapped_segments)
        /\ transcript.content # <<>> =>
              transcript.content[Len(transcript.content)] # NL
        /\ mapped_segments = <<>> => transcript.content = <<>>

---------------------------------------------------------------------------
(* Claims about enroll_speakers (SpecEnroll).                              *)

CodesOf(segs) ==
    {segs[i].speaker.s : i \in {j \in 1..Len(segs) : segs[j].speaker.s # <<>>}}

IsEligibleFor(code, seg) ==
    seg.speaker = JStr(code) /\ seg.end - seg.start >= MinDuration

\* the eligible windows of a speaker, in input order
RECURSIVE EligibleFrom(_, _)
EligibleFrom(code, i) ==
    IF i > Len(enroll_segments) THEN <<>>
    ELSE (IF IsEligibleFor(code, enroll_segments[i])
          THEN << <<enroll_segments[i].start, enroll_segments[i].end>> >>
          ELSE <<>>) \o EligibleFrom(code, i + 1)

EligibleOf(code) == EligibleFrom(code, 1)

\* the windows of a speaker handed to _cut_wav so far, in call order
RECURSIVE ExtractedFrom(_, _)
ExtractedFrom(code, i) ==
    IF i > Len(cuts) THEN <<>>
    ELSE (IF cuts[i].code = code THEN << <<cuts[i].start, cuts[i].end>> >> ELSE <<>>)
         \o ExtractedFrom(code, i + 1)

ExtractedOf(code) == ExtractedFrom(code, 1)

CountIn(q, w) == Cardinality({i \in 1..Len(q) : q[i] = w})

PositionOf(code) ==
    IF \E i \in 1..Len(grouped) : grouped[i].code = code
    THEN CHOOSE i \in 1..Len(grouped) : grouped[i].code = code
    ELSE 0

\* the window loop of the speaker has run to its end
WindowLoopDone(code) ==
    /\ PositionOf(code) > 0
    /\ \/ PositionOf(code) < spk
       \/ PositionOf(code) = spk /\ failed_at = "save"

HasLong(code) ==
    \E i \in 1..Len(enroll_segments) : IsEligibleFor(code, enroll_segments[i])

\* C7: of a speaker with k eligible windows and cap c, the windows handed to
\* extraction are handed over longest first, are windows of that speaker
\* none shorter than one left out, never more than min(k, c), and exactly
\* min(k, c) once the speaker's window loop has run to its end.
C7_LongestWindowsFirst ==
    \A code \in CodesOf(enroll_segments) :
        LET el == EligibleOf(code)
            ex == ExtractedOf(code)
            m  == Min(Len(el), cap)
        IN  /\ Len(ex) <= m
            /\ \A i, j \in 1..Len(ex) : i < j => Duration(ex[i]) >= Duration(ex[j])
            /\ \A i \in 1..Len(ex) : CountIn(ex, ex[i]) <= CountIn(el, ex[i])
            /\ \A i \in 1..Len(el) :
                  CountIn(ex, el[i]) < CountIn(el, el[i]) =>
                      \A j \in 1..Len(ex) : Duration(ex[j]) >= Duration(el[i])
            /\ (epc = "returned" \/ WindowLoopDone(code)) => Len(ex) = m

\* Seven eligible windows and the default cap of 5: the call has returned
\* after five extractions.
C7_Witness ==
    /\ epc = "returned"
    /\ enroll_segments = SevenWindows
    /\ cap = DefaultCap
    /\ Len(EligibleOf(Code0)) = 7
    /\ Len(cuts) = 5

\* C8: a speaker whose segments are all shorter than 2.0 seconds is never
\* grouped, has no window extracted, no embedding saved and is never the
\* speaker in hand when the call fails; a file of the output directory is
\* written only by the save of a speaker with a segment of 2.0 seconds or more.
C8_ShortOnlySpeakerSkipped ==
    /\ \A i \in 1..Len(grouped) : HasLong(grouped[i].code)
    /\ \A i \in 1..Len(cuts) : HasLong(cuts[i].code)
    /\ \A i \in 1..Len(saves) : HasLong(saves[i].code)
    /\ failed_at \in {"cut", "embed", "save"} => HasLong(grouped[spk].code)
    /\ \A name \in DOMAIN speaker_db :
          (name \notin DOMAIN InitialDb \/ speaker_db[name] # InitialDb[name]) =>
              \E i \in 1..Len(saves) : saves[i].name = name

\* A call that returned with a file saved while another speaker of the
\* input had short segments only.
C8_Witness ==
    /\ epc = "returned"
    /\ saves # <<>>
    /\ \E code \in CodesOf(enroll_segments) : ~HasLong(code)

\* C9: when the embedding dependency is missing the call ends with one
\* EnrollmentError and nothing was done: no grouping, no window cut, no
\* temporary directory, no clip, no file saved or overwritten.
C9_MissingDependencyFailsFirst ==
    failed_at = "import" =>
        /\ epc = "raised"
        /\ enroll_exc = "EnrollmentError"
        /\ grouped = <<>>
        /\ cuts = <<>>
        /\ temp_dir = "none"
        /\ clips = {}
        /\ saves = <<>>
        /\ created = <<>>
        /\ speaker_db = InitialDb

\* The dependency is missing in a call whose input has eligible windows.
C9_Witness ==
    /\ failed_at = "import"
    /\ \E code \in CodesOf(enroll_segments) : HasLong(code)

\* C10: once _cut_wav has failed on a window the call raises
\* EnrollmentError; that window is the last one handed to extraction, and
\* no embedding was saved for the speaker in hand or a later one.
C10_CutFailureIsFatal ==
    failed_at = "cut" =>
        /\ enroll_exc = "EnrollmentError"
        /\ epc \in {"unwinding", "raised"}
        /\ cuts # <<>>
        /\ cuts[Len(cuts)] =
              [code |-> Current.code, start |-> CurrentSelected[idx][1],
               end |-> CurrentSelected[idx][2]]
        /\ Len(ExtractedOf(Current.code)) = idx
        /\ \A i \in 1..Len(cuts) :
              PositionOf(cuts[i].code) > 0 /\ PositionOf(cuts[i].code) <= spk
        /\ \A i \in 1..Len(saves) :
              PositionOf(saves[i].code) > 0 /\ PositionOf(saves[i].code) < spk
        /\ Len(created) = Len(saves)

\* The second window of the first speaker failed while a later speaker
\* was still to be processed.
C10_Witness ==
    /\ failed_at = "cut"
    /\ epc = "raised"
    /\ idx > 1
    /\ spk < Len(grouped)

---------------------------------------------------------------------------
(* Claims about process (Spec).                                            *)

\* C1: once the transcript is written, no failure of enroll_speakers keeps
\* process from returning its PipelineResult: the failure is logged as one
\* warning and no exception leaves process.
C1_EnrollFailureNeverAborts ==
    (transcript.exists /\ enroll_exc # "none" /\ pc # "enrolling") =>
        /\ pc = "done"
        /\ raised = "none"
        /\ warnings = 1

\* C11: enroll_speakers is entered only after load_segments,
\* apply_speaker_map and write_segments have finished and the transcript
\* file holds the rendering; a run that an earlier step ended never enters it.
C11_EnrollAfterTranscript ==
    /\ epc # "idle" =>
          /\ pc \in {"enrolling", "done", "raised"}
          /\ load_segments(doc).err = "none"
          /\ segments = load_segments(doc).segs
          /\ Len(mapped_segments) = Len(segments)
          /\ transcript.exists
          /\ transcript.content = segments_to_text(mapped_segments)
          /\ enroll_segments = SegmentDicts(segments)
    /\ (pc = "raised" /\ enroll_exc = "none") =>
          /\ epc = "idle"
          /\ cuts = <<>>
          /\ saves = <<>>
          /\ temp_dir = "none"
          /\ speaker_db = InitialDb

\* A run that returned its result after an enrollment that saved a file.
C11_Witness ==
    /\ pc = "done"
    /\ epc = "returned"
    /\ saves # <<>>
    /\ transcript.exists

---------------------------------------------------------------------------
(* Further claims about enroll_speakers (SpecEnroll).                      *)

\* C12: when the call has ended, by return or by an exception, a temporary
\* directory that was created is removed and none of its clips is left.
C12_TempDirRemovedAtEnd ==
    epc \in {"returned", "raised"} =>
        /\ temp_dir # "exists"
        /\ clips = {}
        /\ (epc = "returned" \/ failed_at \in {"cut", "embed", "save"}) =>
              temp_dir = "removed"

\* The call ended with the embedder raising on a clip that had been cut.
C12_Witness ==
    /\ epc = "raised"
    /\ failed_at = "embed"
    /\ temp_dir = "removed"
    /\ cuts # <<>>

---------------------------------------------------------------------------
(* Claims about enroll_speakers on float inputs (SpecEnrollFloat).         *)

\* _cut_wav raised "Segment duration must be positive" on the last window
\* handed to it
DurationCheckFired ==
    /\ failed_at = "cut"
    /\ LET c == cuts[Len(cuts)] IN
       c.start = NaN \/ c.end = NaN \/ c.end - c.start <= 0

InputHasNaN ==
    \E i \in 1..Len(enroll_segments) :
        enroll_segments[i].start = NaN \/ enroll_segments[i].end = NaN

---------------------------------------------------------------------------
(* Claims about the files a returned enroll_speakers call leaves           *)
(* (SpecEnroll).                                                           *)

FirstEligibleIndex(code) ==
    CHOOSE i \in 1..Len(enroll_segments) :
        /\ IsEligibleFor(code, enroll_segments[i])
        /\ \A j \in 1..(i - 1) : ~IsEligibleFor(code, enroll_segments[j])

DisplayName(code) ==
    IF code \in DOMAIN speaker_map THEN speaker_map[code] ELSE code

LastSaveOf(name) ==
    CHOOSE i \in 1..Len(saves) :
        /\ saves[i].name = name
        /\ \A j \in (i + 1)..Len(saves) : saves[j].name # name

=============================================================================
